---- MODULE Spec2Model ----
(***************************************************************************)
(* s3fs (example/s3fs/main.go): a read-only FUSE view over an S3 bucket.   *)
(* The root node s3Bucket lists the bucket once in OnAdd and adds one      *)
(* child s3Object per listed item; s3Object.Getattr projects the stored    *)
(* s3.Object onto a fuse.AttrOut.  main wires cli -> session -> mount ->   *)
(* wait.                                                                   *)
(*                                                                         *)
(* Go pointers (to string, int64, time.Time, ListObjectsOutput) are        *)
(* modelled as sequences of length at most one: <<>> is nil, <<v>> points  *)
(* at v.  Strings that the program may inspect (object keys) are modelled  *)
(* as sequences of characters.  uint64 values are four 16-bit limbs, most  *)
(* significant first, so that the int64 -> uint64 conversion keeps its     *)
(* width.                                                                  *)
(***************************************************************************)
EXTENDS Integers, Sequences, FiniteSets, TLC

VARIABLES
    pc,             \* position of main: "newCli", "newS3Bucket", "Mount",
                    \* "OnAdd", "OnAddLoop", "attached", "Wait", "exited"
    exitCode,       \* process exit status, -1 while the process runs
    fault,          \* "none", or the handler in which a nil dereference panicked
    cli,            \* the cli struct returned by newCli
    served,         \* environment: the page the S3 endpoint answers a listing with
    bucketChanges,  \* environment: number of changes made to the bucket so far
    listCalls,      \* number of ListObjects calls issued by this process
    listErr,        \* err of the ListObjects call (FALSE until it fails)
    out,            \* out of the ListObjects call: nil or pointer to the output
    idx,            \* position of the range loop over out.Contents
    children,       \* b.Inode's children: entry name -> child inode
    attached,       \* OnAdd has returned
    log,            \* lines written with log.Printf, by kind
    getattrCalls,   \* entry name -> number of Getattr calls made on it
    attrs,          \* entry name -> set of results Getattr has returned for it
    session,        \* ordinal of the running process (mount session)
    prev,           \* the listing and catalog of the latest earlier session, if any
    argv,           \* the command line and environment the process was started with
    stderr,         \* what the process wrote to os.Stderr before exiting, by kind
    workers         \* the bridge's workers: each one's getattr request in progress

vars == <<pc, exitCode, fault, cli, served, bucketChanges, listCalls, listErr, out,
          idx, children, attached, log, getattrCalls, attrs, session, prev, argv, stderr,
          workers>>

procVars == <<pc, exitCode, fault, cli, listCalls, listErr, out, idx, children,
              attached, log, getattrCalls, attrs, argv, stderr, workers>>

-----------------------------------------------------------------------------
(* Bounds of the model. *)

MaxItems == 2           \* longest out.Contents the endpoint answers with
MaxBucketChanges == 1   \* changes made to the bucket during a run
MaxQueries == 2         \* Getattr calls per entry
MaxSessions == 2        \* processes started one after the other
MaxWorkers == 2         \* workers of the bridge that serve requests at once

-----------------------------------------------------------------------------
(* Program constants. *)

EXUSAGE == 64
EXUNAVAILABLE == 69
EXOSFILE == 72
ReadOnlyMode == 292     \* 0444

-----------------------------------------------------------------------------
(* Pointers. *)

NilPtr == << >>
Ptr(v) == << v >>
Deref(p) == p[1]

(* Go's uint64(x) for an int64 x: the two's complement bit pattern of x.   *)
(* x ranges over what fits a 32-bit integer here; the result is four       *)
(* 16-bit limbs, most significant first.                                   *)
Limb == 2^16
Uint64(x) ==
    IF x >= 0
    THEN << 0, 0, x \div Limb, x % Limb >>
    ELSE LET m == (-x) - 1
         IN  << Limb - 1, Limb - 1, (Limb - 1) - (m \div Limb), (Limb - 1) - (m % Limb) >>

-----------------------------------------------------------------------------
(* Values the environment supplies. *)

KeyA == << "a" >>                  \* the key "a"
KeyDB == << "d", "/", "b" >>       \* the key "d/b"
BucketName == << "b", "k", "t" >>
MountPoint == << "/", "m" >>
Endpoint == << "h" >>
EmptyString == << >>

S3Obj(k, s, t) == [Key |-> k, Size |-> s, LastModified |-> t]

(* s3.Object values a ListObjects page may carry: each has Key,            *)
(* Size and LastModified pointers, any of which the SDK leaves nil when    *)
(* the endpoint omits the element.  LastModified is held as Unix seconds.  *)
Objects ==
    { S3Obj(Ptr(KeyA),  Ptr(1024), Ptr(1672531200)),
      S3Obj(Ptr(KeyA),  Ptr(2048), Ptr(1700000000)),
      S3Obj(Ptr(KeyDB), Ptr(0),    Ptr(1672531200)),
      S3Obj(Ptr(KeyDB), NilPtr,    Ptr(1672531200)),
      S3Obj(Ptr(KeyDB), Ptr(0),    NilPtr),
      S3Obj(Ptr(KeyDB), Ptr(-1),   Ptr(1700000000)),
      S3Obj(NilPtr,     Ptr(0),    Ptr(1672531200)) }

(* Objects a client can store in the bucket after the mount. *)
PutObjects ==
    { S3Obj(Ptr(KeyA),  Ptr(2048), Ptr(1700000000)),
      S3Obj(Ptr(KeyDB), Ptr(0),    Ptr(1672531200)) }

BoundedSeq(S, n) == UNION { [1..k -> S] : k \in 0..n }

(* s3.ListObjectsOutput: the fields the listing carries. *)
ListObjectsOutputs == [Contents : BoundedSeq(Objects, MaxItems), IsTruncated : BOOLEAN]

RECURSIVE Without(_, _)
Without(s, k) ==
    IF s = << >> THEN << >>
    ELSE IF Head(s).Key = Ptr(k) THEN Without(Tail(s), k)
    ELSE << Head(s) >> \o Without(Tail(s), k)

(* The command lines a process is started with: the positional arguments,  *)
(* the -bucket flag and the AWS_ENDPOINT variable (one value: main only    *)
(* hands it on to the session's configuration).                            *)
Argvs ==
    [args : BoundedSeq({MountPoint}, 1),
     bucket : {EmptyString, BucketName},
     AWS_ENDPOINT : {Endpoint}]

(* The fields of fuse.AttrOut that Getattr writes, before it writes them. *)
ZeroAttr ==
    [Mode |-> 0, Nlink |-> 0, Mtime |-> Uint64(0), Atime |-> Uint64(0),
     Ctime |-> Uint64(0), Size |-> Uint64(0), Blksize |-> 0, Blocks |-> Uint64(0)]

(* The workers of the dispatch bridge.  A worker serves one getattr        *)
(* request at a time: at is its position in s3Object.Getattr, name the     *)
(* entry asked about, out the request's fuse.AttrOut and reply what it     *)
(* answered.                                                               *)
Workers == 1..MaxWorkers
NoReply == [errno |-> -1, out |-> ZeroAttr]
IdleWorker == [at |-> "idle", name |-> EmptyString, out |-> ZeroAttr, reply |-> NoReply]

NoCli == [mountPoint |-> EmptyString, bucketName |-> EmptyString, endpoint |-> EmptyString]
NoPrev == << >>
EmptyChildren == << >>

-----------------------------------------------------------------------------
(* Library calls the program makes (fs.Inode, fs.Mount). *)

(* fs.Inode.NewPersistentInode(ctx, ops, fs.StableAttr{}): a fresh inode   *)
(* around ops; a zero StableAttr makes it a regular file with no children. *)
NewPersistentInode(ops) == [ops |-> ops, isDir |-> FALSE, children |-> EmptyChildren]

(* fs.Inode.AddChild(name, child, overwrite): binds name to child in the   *)
(* children map; an existing binding is replaced only if overwrite.        *)
AddChild(ch, name, child, overwrite) ==
    IF name \in DOMAIN ch /\ ~overwrite
    THEN ch
    ELSE [n \in (DOMAIN ch) \cup {name} |-> IF n = name THEN child ELSE ch[n]]

-----------------------------------------------------------------------------
(* The program. *)

Init ==
    /\ pc = "newCli"
    /\ exitCode = -1
    /\ fault = "none"
    /\ cli = NoCli
    /\ served \in ListObjectsOutputs
    /\ bucketChanges = 0
    /\ listCalls = 0
    /\ listErr = FALSE
    /\ out = NilPtr
    /\ idx = 0
    /\ children = EmptyChildren
    /\ attached = FALSE
    /\ log = {}
    /\ getattrCalls = << >>
    /\ attrs = << >>
    /\ session = 1
    /\ prev = NoPrev
    /\ argv \in Argvs
    /\ stderr = ""
    /\ workers = [w \in Workers |-> IdleWorker]

(* os.Exit(code), or main returning with code 0. *)
Exit(code) ==
    /\ pc' = "exited"
    /\ exitCode' = code

(* A nil pointer dereference: the Go runtime panics, nothing recovers it   *)
(* and the process dies with status 2.                                     *)
Panic(where) ==
    /\ pc' = "exited"
    /\ exitCode' = 2
    /\ fault' = where

(* Variant: only the MOUNTPOINT argument is checked. *)
UsageErrorMountPointOnly(a) == Len(a.args) < 1

(* The two bailIf checks of newCli. *)
UsageError(a) == Len(a.args) < 1 \/ a.bucket = EmptyString

(* newCli: parse the flags; bail out on a missing MOUNTPOINT or BUCKET. *)
newCli ==
    /\ pc = "newCli"
    /\ IF UsageError(argv)
       THEN /\ Exit(EXUSAGE)
            /\ stderr' = IF Len(argv.args) < 1
                         THEN "oops! MOUNTPOINT was not provided"
                         ELSE "oops! BUCKET was not provided"
            /\ UNCHANGED cli
       ELSE /\ cli' = [mountPoint |-> IF Len(argv.args) < 1 THEN EmptyString
                                      ELSE argv.args[1],
                       bucketName |-> argv.bucket,
                       endpoint |-> argv.AWS_ENDPOINT]
            /\ pc' = "newS3Bucket"
            /\ UNCHANGED <<exitCode, stderr>>
    /\ UNCHANGED <<fault, served, bucketChanges, listCalls, listErr, out, idx, children,
                   attached, log, getattrCalls, attrs, session, prev, argv, workers>>

(* Variant: a failed session ends the process with the usage code. *)
newS3BucketUsageCode ==
    /\ pc = "newS3Bucket"
    /\ \E sessionErr \in BOOLEAN :
          IF sessionErr
          THEN /\ Exit(EXUSAGE)
               /\ stderr' = "unable to open s3 connection to bucket"
               /\ UNCHANGED children
          ELSE /\ children' = EmptyChildren
               /\ pc' = "Mount"
               /\ UNCHANGED <<exitCode, stderr>>
    /\ UNCHANGED <<fault, cli, served, bucketChanges, listCalls, listErr, out, idx,
                   attached, log, getattrCalls, attrs, session, prev, argv, workers>>

(* newS3Bucket, and main's handling of its error. *)
newS3Bucket ==
    /\ pc = "newS3Bucket"
    /\ \E sessionErr \in BOOLEAN :
          IF sessionErr
          THEN /\ Exit(EXUNAVAILABLE)
               /\ stderr' = "unable to open s3 connection to bucket"
               /\ UNCHANGED children
          ELSE /\ children' = EmptyChildren
               /\ pc' = "Mount"
               /\ UNCHANGED <<exitCode, stderr>>
    /\ UNCHANGED <<fault, cli, served, bucketChanges, listCalls, listErr, out, idx,
                   attached, log, getattrCalls, attrs, session, prev, argv, workers>>

(* fs.Mount fails: main exits with EXOSFILE; the root was never attached. *)
MountFail ==
    /\ pc = "Mount"
    /\ Exit(EXOSFILE)
    /\ stderr' = "unable to mount at"
    /\ UNCHANGED <<fault, cli, served, bucketChanges, listCalls, listErr, out, idx,
                   children, attached, log, getattrCalls, attrs, session, prev, argv,
                   workers>>

(* fs.Mount attaches the root: the bridge invokes the root's OnAdd, once. *)
MountAttach ==
    /\ pc = "Mount"
    /\ pc' = "OnAdd"
    /\ UNCHANGED <<exitCode, fault, cli, served, bucketChanges, listCalls, listErr, out,
                   idx, children, attached, log, getattrCalls, attrs, session, prev, argv,
                   stderr, workers>>

(* Variant: a failed listing ends the process as unavailable. *)
OnAddListFailedFatal ==
    /\ listErr' = TRUE
    /\ out' = NilPtr
    /\ log' = log \cup {"failed to query s3 bucket"}
    /\ Exit(EXUNAVAILABLE)
    /\ UNCHANGED <<idx, attached, fault>>

(* Variant: a failed listing is asked for again. *)
OnAddListFailedRetry ==
    /\ listErr' = TRUE
    /\ out' = NilPtr
    /\ log' = log \cup {"failed to query s3 bucket"}
    /\ UNCHANGED <<pc, idx, attached, exitCode, fault>>

(* OnAdd, err != nil: the failure is logged and OnAdd returns. *)
OnAddListFailed ==
    /\ listErr' = TRUE
    /\ out' = NilPtr
    /\ log' = log \cup {"failed to query s3 bucket"}
    /\ attached' = TRUE
    /\ pc' = "attached"
    /\ UNCHANGED <<idx, exitCode, fault>>

(* Variant: the loop runs in the background and OnAdd returns at once. *)
OnAddListedAsync ==
    /\ listErr' = FALSE
    /\ out' = Ptr(served)
    /\ idx' = 1
    /\ pc' = "OnAddLoop"
    /\ attached' = TRUE
    /\ UNCHANGED <<log, exitCode, fault>>

(* OnAdd, err == nil: the range loop over out.Contents starts. *)
OnAddListed ==
    /\ listErr' = FALSE
    /\ out' = Ptr(served)
    /\ idx' = 1
    /\ pc' = "OnAddLoop"
    /\ UNCHANGED <<log, attached, exitCode, fault>>

(* OnAdd, first statement: the one ListObjects call, which fails or not. *)
OnAdd ==
    /\ pc = "OnAdd"
    /\ listCalls' = listCalls + 1
    /\ \E err \in BOOLEAN : IF err THEN OnAddListFailed ELSE OnAddListed
    /\ UNCHANGED <<cli, served, bucketChanges, children, getattrCalls, attrs, session,
                   prev, argv, stderr, workers>>

(* Variant: the name is the key up to its first path separator. *)
RECURSIVE FirstSegment(_)
FirstSegment(k) ==
    IF k = << >> \/ Head(k) = "/" THEN << >>
    ELSE << Head(k) >> \o FirstSegment(Tail(k))

EntryNameFirstSegment(obj) == FirstSegment(Deref(obj.Key))

(* Variant: a key that is already a name is made unique with a suffix. *)
EntryNameDeduped(obj) ==
    IF Deref(obj.Key) \in DOMAIN children
    THEN Deref(obj.Key) \o << "~" >>
    ELSE Deref(obj.Key)

(* The name an object is added under: *obj.Key, the key as it is. *)
EntryName(obj) == Deref(obj.Key)

(* Variant: AddChild is told not to overwrite. *)
AddChildOverwriteOff == FALSE

(* The overwrite argument OnAdd passes to AddChild. *)
AddChildOverwrite == TRUE

(* Variant: the loop stops before the last item. *)
RangeDoneOneEarly(contents, i) == i >= Len(contents)

(* for _, obj := range out.Contents: the loop ends after the last item. *)
RangeDone(contents, i) == i > Len(contents)

(* Variant: the order of the visit differs from one process to the next. *)
RangeItemOrderVaries(contents, i) ==
    IF session % 2 = 0 THEN contents[Len(contents) + 1 - i] ELSE contents[i]

(* for _, obj := range out.Contents: the items come in slice order. *)
RangeItem(contents, i) == contents[i]

(* Variant: after a truncated page OnAdd asks for the next one. *)
OnAddReturnsOrPages ==
    IF Deref(out).IsTruncated /\ listCalls < 2
    THEN /\ pc' = "OnAdd"
         /\ UNCHANGED attached
    ELSE /\ attached' = TRUE
         /\ pc' = "attached"

(* The loop is over: OnAdd returns, whatever out.IsTruncated says. *)
OnAddReturns ==
    /\ attached' = TRUE
    /\ pc' = "attached"

(* OnAdd, one iteration of the range loop over out.Contents, or its end. *)
OnAddLoop ==
    /\ pc = "OnAddLoop"
    /\ LET contents == Deref(out).Contents
       IN  IF RangeDone(contents, idx)
           THEN /\ OnAddReturns
                /\ UNCHANGED <<exitCode, fault, idx, children>>
           ELSE LET obj == RangeItem(contents, idx)
                    child == NewPersistentInode([content |-> obj])
                IN  IF obj.Key = NilPtr
                    THEN /\ Panic("OnAdd")
                         /\ UNCHANGED <<idx, children, attached>>
                    ELSE /\ children' = AddChild(children, EntryName(obj), child,
                                                 AddChildOverwrite)
                         /\ idx' = idx + 1
                         /\ UNCHANGED <<pc, exitCode, fault, attached>>
    /\ UNCHANGED <<cli, served, bucketChanges, listCalls, listErr, out, log, getattrCalls,
                   attrs, session, prev, argv,
                   stderr, workers>>

(* fs.Mount returns the server: main logs the mount and blocks in Wait. *)
MountOk ==
    /\ pc = "attached"
    /\ log' = log \cup {"mounted s3 bucket"}
    /\ pc' = "Wait"
    /\ UNCHANGED <<exitCode, fault, cli, served, bucketChanges, listCalls, listErr, out,
                   idx, children, attached, getattrCalls, attrs, session, prev, argv,
                   stderr, workers>>

(* A finite map with one binding set. *)
Bind(f, k, v) == [n \in (DOMAIN f) \cup {k} |-> IF n = k THEN v ELSE f[n]]
At(f, k, default) == IF k \in DOMAIN f THEN f[k] ELSE default

(* The fields Getattr writes when both dereferences succeed. *)
Projection(o) ==
    [Mode    |-> ReadOnlyMode,
     Nlink   |-> 1,
     Mtime   |-> Uint64(Deref(o.content.LastModified)),
     Atime   |-> Uint64(0),
     Ctime   |-> Uint64(0),
     Size    |-> Uint64(Deref(o.content.Size)),
     Blksize |-> 0,
     Blocks  |-> Uint64(0)]

(* Getattr dereferences a nil LastModified or a nil Size. *)
DerefsNil(o) == o.content.LastModified = NilPtr \/ o.content.Size = NilPtr

(* Variant: the access time is taken from a clock that advances. *)
GetattrResultClock(o) ==
    [panicked |-> DerefsNil(o),
     errno |-> 0,
     out |-> IF DerefsNil(o) THEN ZeroAttr
             ELSE [Projection(o) EXCEPT !.Atime = Uint64(Cardinality(DOMAIN attrs))]]

(* Variant: the size field is filled from the modification time. *)
GetattrResultSizeFromMtime(o) ==
    [panicked |-> DerefsNil(o),
     errno |-> 0,
     out |-> IF DerefsNil(o) THEN ZeroAttr
             ELSE [Projection(o) EXCEPT !.Size = Uint64(Deref(o.content.LastModified))]]

(* Variant: a negative size is answered with EINVAL. *)
GetattrResultChecked(o) ==
    [panicked |-> DerefsNil(o),
     errno |-> IF ~DerefsNil(o) /\ Deref(o.content.Size) < 0 THEN 22 ELSE 0,
     out |-> IF DerefsNil(o) THEN ZeroAttr ELSE Projection(o)]

(* What s3Object.Getattr does on o: it writes Mode and Nlink, dereferences *)
(* o.content.LastModified, writes Mtime, Atime and Ctime, dereferences     *)
(* o.content.Size, writes Size, Blksize and Blocks, and returns 0.  A nil  *)
(* LastModified or Size panics before the return.                          *)
GetattrResult(o) ==
    IF o.content.LastModified = NilPtr
    THEN [panicked |-> TRUE, errno |-> 0,
          out |-> [ZeroAttr EXCEPT !.Mode = ReadOnlyMode, !.Nlink = 1]]
    ELSE IF o.content.Size = NilPtr
    THEN [panicked |-> TRUE, errno |-> 0,
          out |-> [ZeroAttr EXCEPT !.Mode = ReadOnlyMode, !.Nlink = 1,
                                   !.Mtime = Uint64(Deref(o.content.LastModified))]]
    ELSE [panicked |-> FALSE, errno |-> 0, out |-> Projection(o)]

(* Variant: a getattr that re-reads the bucket and drops the entry. *)
GetattrRefreshing(name) ==
    /\ pc = "Wait"
    /\ name \in DOMAIN children
    /\ At(getattrCalls, name, 0) < MaxQueries
    /\ getattrCalls' = Bind(getattrCalls, name, At(getattrCalls, name, 0) + 1)
    /\ children' = [n \in (DOMAIN children) \ {name} |-> children[n]]
    /\ UNCHANGED <<pc, exitCode, fault, attrs, cli, served, bucketChanges, listCalls,
                   listErr, out, idx, attached, log, session, prev, argv,
                   stderr, workers>>

(* The bridge serves a getattr request on the child called name. *)
Getattr(name) ==
    /\ pc = "Wait"
    /\ name \in DOMAIN children
    /\ At(getattrCalls, name, 0) < MaxQueries
    /\ getattrCalls' = Bind(getattrCalls, name, At(getattrCalls, name, 0) + 1)
    /\ LET r == GetattrResult(children[name].ops)
       IN  IF r.panicked
           THEN /\ Panic("Getattr")
                /\ UNCHANGED attrs
           ELSE /\ attrs' = Bind(attrs, name, At(attrs, name, {}) \cup {[errno |-> r.errno, out |-> r.out]})
                /\ UNCHANGED <<pc, exitCode, fault>>
    /\ UNCHANGED <<cli, served, bucketChanges, listCalls, listErr, out, idx, children,
                   attached, log, session, prev, argv,
                   stderr, workers>>

(* Variant: when the mount is taken down, main mounts the bucket again. *)
UnmountRemounts ==
    /\ pc = "Wait"
    /\ pc' = "Mount"
    /\ UNCHANGED <<exitCode, fault, cli, served, bucketChanges, listCalls, listErr, out,
                   idx, children, attached, log, getattrCalls, attrs, session, prev, argv,
                   stderr, workers>>

-----------------------------------------------------------------------------
(* s3Object.Getattr statement by statement, as the bridge's workers run it *)
(* side by side.                                                           *)

(* Variant: all calls write into one AttrOut. *)
OutSlotShared(w) == 1

(* The AttrOut a call writes: the out parameter, one per request. *)
OutSlot(w) == w

mainVars == <<pc, exitCode, fault, cli, served, bucketChanges, listCalls, listErr, out,
              idx, children, attached, log, getattrCalls, attrs, session, prev, argv,
              stderr>>

(* The bridge hands worker w a getattr request on name, with a zeroed out. *)
GetattrBegin(w, name) ==
    /\ pc = "Wait"
    /\ workers[w].at = "idle"
    /\ name \in DOMAIN children
    /\ workers' = [workers EXCEPT ![w].at = "Mode", ![w].name = name,
                                  ![OutSlot(w)].out = ZeroAttr]
    /\ UNCHANGED mainVars

(* out.Mode, out.Nlink and out.Mtime: o.content.LastModified is read. *)
GetattrMtime(w) ==
    /\ pc = "Wait"
    /\ workers[w].at = "Mode"
    /\ LET o == children[workers[w].name].ops
       IN  IF o.content.LastModified = NilPtr
           THEN /\ Panic("Getattr")
                /\ workers' = [workers EXCEPT ![OutSlot(w)].out.Mode = ReadOnlyMode,
                                              ![OutSlot(w)].out.Nlink = 1]
           ELSE /\ workers' = [workers EXCEPT
                                  ![w].at = "Atime",
                                  ![OutSlot(w)].out.Mode = ReadOnlyMode,
                                  ![OutSlot(w)].out.Nlink = 1,
                                  ![OutSlot(w)].out.Mtime =
                                      Uint64(Deref(o.content.LastModified))]
                /\ UNCHANGED <<pc, exitCode, fault>>
    /\ UNCHANGED <<cli, served, bucketChanges, listCalls, listErr, out, idx, children,
                   attached, log, getattrCalls, attrs, session, prev, argv, stderr>>

(* out.Atime to out.Blocks and return 0: o.content.Size is read. *)
GetattrSize(w) ==
    /\ pc = "Wait"
    /\ workers[w].at = "Atime"
    /\ LET o == children[workers[w].name].ops
           s == OutSlot(w)
       IN  IF o.content.Size = NilPtr
           THEN /\ Panic("Getattr")
                /\ workers' = [workers EXCEPT ![s].out.Atime = Uint64(0),
                                              ![s].out.Ctime = Uint64(0)]
           ELSE LET written == [workers[s].out EXCEPT
                                   !.Atime = Uint64(0),
                                   !.Ctime = Uint64(0),
                                   !.Size = Uint64(Deref(o.content.Size)),
                                   !.Blksize = 0,
                                   !.Blocks = Uint64(0)]
                    afterWrite == [workers EXCEPT ![s].out = written]
                IN  /\ workers' = [afterWrite EXCEPT
                                      ![w].at = "done",
                                      ![w].reply = [errno |-> 0, out |-> written]]
                    /\ UNCHANGED <<pc, exitCode, fault>>
    /\ UNCHANGED <<cli, served, bucketChanges, listCalls, listErr, out, idx, children,
                   attached, log, getattrCalls, attrs, session, prev, argv, stderr>>

(* The bridge sends the reply and the worker is free again. *)
GetattrReply(w) ==
    /\ pc = "Wait"
    /\ workers[w].at = "done"
    /\ workers' = [workers EXCEPT ![w] = [IdleWorker EXCEPT !.out = workers[w].out]]
    /\ UNCHANGED mainVars

-----------------------------------------------------------------------------
(* The mount is taken down from outside: server.Wait and main return. *)
Unmount ==
    /\ pc = "Wait"
    /\ Exit(0)
    /\ UNCHANGED <<fault, cli, served, bucketChanges, listCalls, listErr, out, idx,
                   children, attached, log, getattrCalls, attrs, session, prev, argv,
                   stderr, workers>>

(* Someone changes the bucket: an object is stored (new or overwritten) or *)
(* deleted.  The program takes no part in it.                              *)
BucketChange ==
    /\ bucketChanges < MaxBucketChanges
    /\ bucketChanges' = bucketChanges + 1
    /\ \/ \E obj \in PutObjects :
             LET rest == Without(served.Contents, Deref(obj.Key))
             IN  /\ Len(rest) < MaxItems
                 /\ served' = [served EXCEPT !.Contents = rest \o << obj >>]
       \/ \E k \in {KeyA, KeyDB} :
             /\ \E i \in 1..Len(served.Contents) : served.Contents[i].Key = Ptr(k)
             /\ served' = [served EXCEPT !.Contents = Without(served.Contents, k)]
    /\ UNCHANGED <<procVars, session, prev>>

(* The process has ended and the program is started again: a new process,  *)
(* with nothing of the old one's memory.                                   *)
Restart ==
    /\ pc = "exited"
    /\ session < MaxSessions
    /\ session' = session + 1
    /\ prev' = IF attached
               THEN [listErr |-> listErr, out |-> out, children |-> children]
               ELSE prev
    /\ pc' = "newCli"
    /\ exitCode' = -1
    /\ fault' = "none"
    /\ cli' = NoCli
    /\ listCalls' = 0
    /\ listErr' = FALSE
    /\ out' = NilPtr
    /\ idx' = 0
    /\ children' = EmptyChildren
    /\ attached' = FALSE
    /\ log' = {}
    /\ getattrCalls' = << >>
    /\ attrs' = << >>
    /\ argv' \in Argvs
    /\ stderr' = ""
    /\ workers' = [w \in Workers |-> IdleWorker]
    /\ UNCHANGED <<served, bucketChanges>>

Next ==
    \/ newCli
    \/ newS3Bucket
    \/ MountFail
    \/ MountAttach
    \/ OnAdd
    \/ OnAddLoop
    \/ MountOk
    \/ \E name \in DOMAIN children : Getattr(name)
    \/ Unmount
    \/ BucketChange

Spec == Init /\ [][Next]_vars

(* Several mount sessions, one after the other. *)
NextSessions == Next \/ Restart

SpecSessions == Init /\ [][NextSessions]_vars

(* One session whose queries are served by the workers side by side. *)
NextWorkers ==
    \/ newCli
    \/ newS3Bucket
    \/ MountFail
    \/ MountAttach
    \/ OnAdd
    \/ OnAddLoop
    \/ MountOk
    \/ \E w \in Workers, name \in DOMAIN children : GetattrBegin(w, name)
    \/ \E w \in Workers : GetattrMtime(w)
    \/ \E w \in Workers : GetattrSize(w)
    \/ \E w \in Workers : GetattrReply(w)
    \/ Unmount

SpecWorkers == Init /\ [][NextWorkers]_vars

(* main runs on: each of its statements is reached unless the process has  *)
(* exited or blocks in server.Wait.                                        *)
MainStep ==
    newCli \/ newS3Bucket \/ MountFail \/ MountAttach \/ OnAdd \/ OnAddLoop \/ MountOk

FairSpec == Spec /\ WF_vars(MainStep)

-----------------------------------------------------------------------------
(* Properties. *)

Contents == Deref(out).Contents
Listed == attached /\ ~listErr
DistinctKeys(c) == \A i, j \in 1..Len(c) : c[i].Key = c[j].Key => i = j
LastIndexOf(c, k) == CHOOSE i \in 1..Len(c) :
                        /\ c[i].Key = k
                        /\ \A j \in (i + 1)..Len(c) : c[j].Key # k

(* C1: when the one ListObjects call succeeds and returns the N >= 0       *)
(* objects of a bucket (N items under N distinct keys) without truncation, *)
(* the root has exactly N children once OnAdd has returned; N = 0 gives a  *)
(* root without children.                                                  *)
C1_CatalogHasNEntries ==
    (Listed /\ ~Deref(out).IsTruncated /\ DistinctKeys(Contents))
        => Cardinality(DOMAIN children) = Len(Contents)

C1_Witness ==
    /\ Listed
    /\ ~Deref(out).IsTruncated
    /\ DistinctKeys(Contents)
    /\ Len(Contents) = 2
    /\ Cardinality(DOMAIN children) = 2

(* C2: soft-fail.  If the ListObjects call fails, the catalog has no       *)
(* entry, OnAdd has returned without a fault or an exit, and the session   *)
(* goes on to the mounted state: it is attached, then mounted, and exits   *)
(* only from there, when the mount is taken down.                          *)
C2_SoftFail ==
    /\ [](listErr =>
            /\ DOMAIN children = {}
            /\ attached
            /\ fault = "none"
            /\ \/ pc = "attached"
               \/ pc = "Wait"
               \/ pc = "exited" /\ exitCode = 0 /\ "mounted s3 bucket" \in log)
    /\ (listErr ~> ("mounted s3 bucket" \in log))

C2_Witness ==
    /\ listErr
    /\ pc = "Wait"
    /\ DOMAIN children = {}
    /\ "failed to query s3 bucket" \in log

(* C3: last write wins.  After OnAdd, every listed key names one child,    *)
(* and that child carries the size and modification time of the last item  *)
(* of the listing with that key.                                           *)
C3_LastWriteWins ==
    Listed =>
        \A i \in 1..Len(Contents) :
            LET k == Deref(Contents[i].Key)
                last == Contents[LastIndexOf(Contents, Contents[i].Key)]
            IN  /\ k \in DOMAIN children
                /\ children[k].ops.content.Size = last.Size
                /\ children[k].ops.content.LastModified = last.LastModified

C3_Witness ==
    /\ Listed
    /\ Len(Contents) = 2
    /\ Contents[1].Key = Contents[2].Key
    /\ Contents[1].Size # Contents[2].Size
    /\ Contents[1].LastModified # Contents[2].LastModified
    /\ Cardinality(DOMAIN children) = 1
    /\ children[Deref(Contents[2].Key)].ops.content.Size = Contents[2].Size

(* The uint64 u is the number n. *)
IsNumber(u, n) ==
    /\ n >= 0
    /\ u[1] = 0
    /\ u[2] = 0
    /\ u[3] < 2^15
    /\ u[3] * Limb + u[4] = n

Queried(name) == At(getattrCalls, name, 0) > 0

(* The stored object carries a byte size and an instant of the epoch. *)
HasSizeAndTime(content) ==
    /\ content.Size # NilPtr
    /\ content.LastModified # NilPtr
    /\ Deref(content.Size) >= 0
    /\ Deref(content.LastModified) >= 0

(* C4, as claimed: for every catalog entry, Getattr returns mode 0444,     *)
(* link count 1, the entry's stored byte size, its last-modified instant   *)
(* in epoch seconds, and zero access and change times.                     *)
C4_AsClaimed ==
    \A name \in DOMAIN children :
        Queried(name) =>
            LET content == children[name].ops.content
            IN  /\ fault # "Getattr"
                /\ At(attrs, name, {}) # {}
                /\ \A r \in At(attrs, name, {}) :
                      /\ r.out.Mode = ReadOnlyMode
                      /\ r.out.Nlink = 1
                      /\ content.Size # NilPtr
                      /\ IsNumber(r.out.Size, Deref(content.Size))
                      /\ content.LastModified # NilPtr
                      /\ IsNumber(r.out.Mtime, Deref(content.LastModified))
                      /\ IsNumber(r.out.Atime, 0)
                      /\ IsNumber(r.out.Ctime, 0)

(* C4, amended: every result Getattr returns has mode 0444, link count 1   *)
(* and zero access and change times; on an entry whose stored object       *)
(* carries a size >= 0 and a last-modified instant >= 0, every call        *)
(* returns, with that size and that instant in epoch seconds.              *)
C4_AttributeProjection ==
    \A name \in DOMAIN children :
        Queried(name) =>
            LET content == children[name].ops.content
            IN  /\ \A r \in At(attrs, name, {}) :
                      /\ r.out.Mode = ReadOnlyMode
                      /\ r.out.Nlink = 1
                      /\ IsNumber(r.out.Atime, 0)
                      /\ IsNumber(r.out.Ctime, 0)
                /\ HasSizeAndTime(content) =>
                      /\ At(attrs, name, {}) # {}
                      /\ \A r \in At(attrs, name, {}) :
                            /\ IsNumber(r.out.Size, Deref(content.Size))
                            /\ IsNumber(r.out.Mtime, Deref(content.LastModified))

C4_Witness ==
    /\ KeyA \in DOMAIN children
    /\ Queried(KeyA)
    /\ children[KeyA].ops.content.Size = Ptr(1024)
    /\ children[KeyA].ops.content.LastModified = Ptr(1672531200)
    /\ \E r \in At(attrs, KeyA, {}) :
          /\ IsNumber(r.out.Size, 1024)
          /\ IsNumber(r.out.Mtime, 1672531200)

(* C5: build-then-freeze.  Once OnAdd has returned, no step of the         *)
(* session, whether a query, the unmount or a change of the bucket,        *)
(* changes the catalog: the entry names and every entry's stored object    *)
(* stay as they are.                                                       *)
C5_BuildThenFreeze == [][attached => children' = children]_vars

C5_Witness ==
    /\ attached
    /\ ~listErr
    /\ DOMAIN children # {}
    /\ bucketChanges > 0
    /\ served # Deref(out)
    /\ \E name \in DOMAIN children : Queried(name)

(* C6: the listing is asked for once per session: never more than one      *)
(* ListObjects call, exactly one once the bucket is mounted, and exactly   *)
(* one after a failed listing (no retry).                                  *)
C6_ListedOnce ==
    /\ listCalls <= 1
    /\ ("mounted s3 bucket" \in log => listCalls = 1)
    /\ (attached => listCalls = 1)
    /\ (listErr => listCalls = 1)

C6_Witness ==
    /\ pc = "Wait"
    /\ listErr
    /\ listCalls = 1
    /\ bucketChanges > 0

(* C7: Getattr is pure.  All calls on one entry, whatever other queries    *)
(* come in between, return the same result, and a call leaves the catalog  *)
(* and the entries as they were.                                           *)
C7_GetattrPure ==
    /\ [](\A name \in DOMAIN attrs : Cardinality(attrs[name]) <= 1)
    /\ [][getattrCalls' # getattrCalls => children' = children]_vars

C7_Witness ==
    \E n, m \in DOMAIN children :
        /\ n # m
        /\ At(getattrCalls, n, 0) = 2
        /\ At(getattrCalls, m, 0) >= 1
        /\ Cardinality(At(attrs, n, {})) = 1

(* C8: two sessions that were answered the same listing (the same error,   *)
(* or the same output) have catalogs with the same entry names and, for    *)
(* each name, the same outcome of Getattr.                                 *)
C8_BuildDeterministic ==
    (attached /\ prev # NoPrev /\ prev.listErr = listErr /\ prev.out = out)
        => /\ DOMAIN children = DOMAIN prev.children
           /\ \A name \in DOMAIN children :
                 GetattrResult(children[name].ops) = GetattrResult(prev.children[name].ops)

C8_Witness ==
    /\ session = 2
    /\ Listed
    /\ prev # NoPrev
    /\ prev.listErr = listErr
    /\ prev.out = out
    /\ Len(Contents) = 2
    /\ Contents[1].Key = Contents[2].Key
    /\ Contents[1].Size # Contents[2].Size
    /\ DOMAIN children # {}

(* C9, as claimed: Getattr has no error path: on every entry OnAdd placed  *)
(* in the catalog, also one whose item has no size or no last-modified     *)
(* value, a call completes and returns 0.                                  *)
C9_AsClaimed ==
    /\ fault # "Getattr"
    /\ \A name \in DOMAIN children :
          Queried(name) =>
              /\ At(attrs, name, {}) # {}
              /\ \A r \in At(attrs, name, {}) : r.errno = 0

(* C9, amended: Getattr has no error status: every call that returns,      *)
(* returns 0, and every call returns on an entry whose item carries both a *)
(* size and a last-modified value; a call faults only on an entry whose    *)
(* item lacks one of them.                                                 *)
C9_GetattrReturnsZero ==
    /\ \A name \in DOMAIN children :
          LET content == children[name].ops.content
          IN  /\ \A r \in At(attrs, name, {}) : r.errno = 0
              /\ (Queried(name) /\ content.Size # NilPtr /\ content.LastModified # NilPtr)
                     => At(attrs, name, {}) # {}
    /\ fault = "Getattr" =>
          \E name \in DOMAIN children :
              /\ Queried(name)
              /\ \/ children[name].ops.content.Size = NilPtr
                 \/ children[name].ops.content.LastModified = NilPtr

C9_Witness ==
    \E name \in DOMAIN children :
        /\ Queried(name)
        /\ children[name].ops.content.Size = Ptr(-1)
        /\ \E r \in At(attrs, name, {}) : r.errno = 0

(* C10: flat namespace.  After OnAdd every listed key, path separators     *)
(* and all, is the name of a child of the root; every child of the root    *)
(* is named by a listed key, is no directory and has no children.          *)
C10_FlatNamespace ==
    Listed =>
        /\ \A i \in 1..Len(Contents) : Deref(Contents[i].Key) \in DOMAIN children
        /\ \A name \in DOMAIN children :
              /\ \E i \in 1..Len(Contents) : Contents[i].Key = Ptr(name)
              /\ ~children[name].isDir
              /\ DOMAIN children[name].children = {}

C10_Witness ==
    /\ Listed
    /\ KeyDB \in DOMAIN children
    /\ KeyA \in DOMAIN children
    /\ \E i \in 1..Len(Contents) : Contents[i].Key = Ptr(KeyDB)

UsageMessages == {"oops! MOUNTPOINT was not provided", "oops! BUCKET was not provided"}

(* The process was started without a MOUNTPOINT or with an empty -bucket. *)
MissingArgument == argv.args = << >> \/ argv.bucket = << >>

(* C11: a usage error ends the process with 64, a failed connection to     *)
(* the storage with 69 and a failed mount with 72; the three codes are     *)
(* non-zero and pairwise distinct, and the process ends with one of them   *)
(* for no other reason.                                                    *)
C11_ExitCodes ==
    /\ EXUSAGE = 64 /\ EXUNAVAILABLE = 69 /\ EXOSFILE = 72
    /\ stderr \in UsageMessages => pc = "exited" /\ exitCode = 64
    /\ stderr = "unable to open s3 connection to bucket" => pc = "exited" /\ exitCode = 69
    /\ stderr = "unable to mount at" => pc = "exited" /\ exitCode = 72
    /\ exitCode = 64 => stderr \in UsageMessages /\ MissingArgument
    /\ exitCode = 69 => stderr = "unable to open s3 connection to bucket"
    /\ exitCode = 72 => stderr = "unable to mount at"
    /\ (fault # "none" \/ "mounted s3 bucket" \in log \/ listErr)
           => exitCode \notin {64, 69, 72}

C11_Witness ==
    /\ session = 2
    /\ pc = "exited"
    /\ exitCode = 69
    /\ stderr = "unable to open s3 connection to bucket"

(* C12, as claimed: once mounted, the session never goes back and never    *)
(* builds the catalog again; it stays mounted, blocked in server.Wait,     *)
(* until it is terminated from outside.                                    *)
C12_AsClaimed ==
    [][pc = "Wait" =>
          /\ listCalls' = listCalls
          /\ children' = children
          /\ \/ pc' = "Wait"
             \/ pc' = "exited" /\ exitCode' = 0 /\ fault' = "none"]_vars

(* C12, amended: once mounted, the session never goes back and never       *)
(* builds the catalog again; it leaves server.Wait only by the end of the  *)
(* process, which is either the termination from outside (status 0) or a   *)
(* Getattr panic on an entry without a size or a last-modified value.      *)
C12_MountedIsTerminal ==
    [][("mounted s3 bucket" \in log) =>
          /\ "mounted s3 bucket" \in log'
          /\ listCalls' = listCalls
          /\ children' = children
          /\ attached'
          /\ pc' \in {"Wait", "exited"}
          /\ pc = "exited" => pc' = "exited" /\ exitCode' = exitCode
          /\ (pc = "Wait" /\ pc' = "exited") =>
                \/ exitCode' = 0 /\ fault' = "none"
                \/ /\ exitCode' = 2
                   /\ fault' = "Getattr"
                   /\ \E name \in DOMAIN children :
                         /\ DerefsNil(children[name].ops)
                         /\ At(getattrCalls', name, 0) > At(getattrCalls, name, 0)]_vars

C12_Witness ==
    /\ pc = "exited"
    /\ exitCode = 0
    /\ "mounted s3 bucket" \in log
    /\ listCalls = 1
    /\ DOMAIN children # {}
    /\ \E name \in DOMAIN children : Queried(name)

(* C13: a stored size that is negative or absent is surfaced by Getattr as *)
(* a precondition violation; no call on such an entry returns a size.      *)
C13_AsClaimed ==
    \A name \in DOMAIN children :
        LET content == children[name].ops.content
        IN  (Queried(name) /\ (content.Size = NilPtr \/ Deref(content.Size) < 0))
                => At(attrs, name, {}) = {}

KeysOf(c) == { Deref(c[i].Key) : i \in 1..Len(c) }

(* C14: the listing and every insertion happen inside OnAdd.  When OnAdd   *)
(* has returned, the one ListObjects call is over, the loop has passed the *)
(* last item and every listed key is a child; queries are served only      *)
(* then, so none sees a catalog that is still being built.                 *)
C14_BuildIsSynchronous ==
    /\ attached => listCalls = 1
    /\ (attached /\ ~listErr) =>
          /\ idx = Len(Contents) + 1
          /\ KeysOf(Contents) \subseteq DOMAIN children
    /\ pc = "Wait" => attached
    /\ (\E name \in DOMAIN getattrCalls : Queried(name)) => attached
    /\ (\E w \in Workers : workers[w].at # "idle") => attached

C14_Witness ==
    /\ pc = "Wait"
    /\ Listed
    /\ Len(Contents) = 2
    /\ idx = 3
    /\ \A name \in DOMAIN children : Queried(name)
    /\ Cardinality(DOMAIN children) = 2

C17_UsageErrorFirst ==
    MissingArgument =>
        /\ \/ pc = "newCli" /\ exitCode = -1
           \/ pc = "exited" /\ exitCode = EXUSAGE /\ stderr \in UsageMessages
        /\ cli = NoCli
        /\ listCalls = 0
        /\ out = NilPtr
        /\ ~attached
        /\ DOMAIN children = {}
        /\ log = {}

C17_Witness ==
    /\ argv.args = << MountPoint >>
    /\ argv.bucket = EmptyString
    /\ pc = "exited"
    /\ exitCode = EXUSAGE
    /\ stderr = "oops! BUCKET was not provided"

(* C18: after a successful OnAdd the names of the children are exactly     *)
(* the distinct keys of the listing: none is missing, none is added, and   *)
(* there are fewer children than items when a key repeats.                 *)
C18_NamesAreDistinctKeys ==
    Listed =>
        /\ DOMAIN children = KeysOf(Contents)
        /\ Cardinality(DOMAIN children) = Cardinality(KeysOf(Contents))
        /\ ~DistinctKeys(Contents) => Cardinality(DOMAIN children) < Len(Contents)

C18_Witness ==
    /\ pc = "Wait"
    /\ Listed
    /\ Len(Contents) = 2
    /\ ~DistinctKeys(Contents)
    /\ Cardinality(DOMAIN children) = 1

(* C19: a failed listing never ends the process.  The process ends with    *)
(* EXUNAVAILABLE only after a failed newS3Bucket, before anything is       *)
(* mounted or listed; after a failed listing main logs the mount and       *)
(* blocks in server.Wait over a root without children, and ends only by    *)
(* the unmount.                                                            *)
C19_ListingFailureNeverExits ==
    /\ [](exitCode = EXUNAVAILABLE =>
            /\ stderr = "unable to open s3 connection to bucket"
            /\ listCalls = 0
            /\ ~listErr
            /\ ~attached
            /\ log = {})
    /\ [](listErr =>
            /\ stderr = ""
            /\ pc = "Wait" => "mounted s3 bucket" \in log /\ DOMAIN children = {}
            /\ pc = "exited" => exitCode = 0 /\ "mounted s3 bucket" \in log)
    /\ ((listErr /\ pc = "attached") ~> (pc = "Wait"))

C19_Witness ==
    /\ listErr
    /\ pc = "Wait"
    /\ served.Contents # << >>
    /\ DOMAIN children = {}
    /\ "mounted s3 bucket" \in log
    /\ exitCode = -1

(* C15, as claimed: whatever the interleaving of the workers' Getattr      *)
(* calls, every call gets the result it gets when run alone: a call on an  *)
(* entry where a lone call returns is answered with that result and is     *)
(* never cut off.                                                          *)
C15_AsClaimed ==
    \A w \in Workers :
        workers[w].at # "idle" =>
            LET alone == GetattrResult(children[workers[w].name].ops)
            IN  ~alone.panicked =>
                    /\ fault # "Getattr"
                    /\ workers[w].at = "done" =>
                           workers[w].reply = [errno |-> alone.errno, out |-> alone.out]

(* C15, amended: race freedom after the build.  Whatever the interleaving of the    *)
(* workers' Getattr calls, every call that returns answers what a call     *)
(* running alone answers on that entry, a call faults only where a call    *)
(* running alone faults, and no step of a call writes the catalog.         *)
C15_RaceFree ==
    /\ [](\A w \in Workers :
            workers[w].at = "done" =>
                LET alone == GetattrResult(children[workers[w].name].ops)
                IN  /\ ~alone.panicked
                    /\ workers[w].reply = [errno |-> alone.errno, out |-> alone.out])
    /\ [](fault = "Getattr" =>
            \E w \in Workers :
                /\ workers[w].at \in {"Mode", "Atime"}
                /\ GetattrResult(children[workers[w].name].ops).panicked)
    /\ [][attached => children' = children]_vars

C15_Witness ==
    \E w, v \in Workers :
        /\ w # v
        /\ workers[w].at = "done"
        /\ workers[v].at = "Atime"
        /\ workers[w].name # workers[v].name
        /\ workers[w].reply.out.Mtime # workers[v].out.Mtime

====
